---- MODULE Spec2Model ----
(***************************************************************************)
(* Model of minirhizotron_processor_CID.py: the stitching of tube segment  *)
(* images (combine_tube_images), the projection of soil depth levels onto  *)
(* the unrolled tube image and the extraction of depth bands               *)
(* (map_soil_depths_to_image, create_combined_visualization), and the two  *)
(* entry paths of the command line (process_tube_images, --process_single).*)
(*                                                                         *)
(* Conventions.  Python's 0-based lists are 1-based sequences here, so     *)
(* list element k is sequence element k+1.  Floating-point quantities are  *)
(* fixed-point integers: depths in 1/DepthUnitsPerCm cm, lengths in        *)
(* thousandths of a cm, pixel ordinates in thousandths of a pixel,         *)
(* trigonometric values in thousandths.  A float that is not finite is     *)
(* kept apart from the finite ones (see Fin, NaN, PInf, NInf).             *)
(***************************************************************************)
EXTENDS Integers, Sequences, FiniteSets, TLC

(***************************************************************************)
(* Bounds of the model.                                                    *)
(***************************************************************************)
MaxFiles == 2          \* files the glob pattern matches, at most
MaxDim == 2            \* width and height of a segment image in pixels, at most
MaxPos == 1            \* position index in a file name, at most (0: no L<digits>)
DepthUnitsPerCm == 2   \* resolution of depth arguments: 1/DepthUnitsPerCm cm
MaxDepthU == 4         \* max_depth_cm, at most, in depth units
MaxIntervalU == 2      \* depth_interval_cm, at most, in depth units
NumSamples == 5        \* points per projection curve (np.linspace)

VARIABLES
    pc,                 \* position of the run
    error,              \* the exception that ended the run, "none" if none
    log,                \* set of the messages printed so far
    dirs,               \* directories created
    files,              \* output files written: a set of records
    handles,            \* image files opened and not closed yet (by glob index)
    matched,            \* what the last glob found: "unknown", "none", "some"
    caller,             \* who called the function that is running
    stitch_direction,   \* combine_tube_images: the argument
    image_files,        \* combine_tube_images: the sorted file list
    images,             \* combine_tube_images: the opened, then resized, images
    offsets,            \* combine_tube_images: where each image was pasted
    combined,           \* combine_tube_images: size of the canvas pasted into
    src,                \* map_soil_depths_to_image: the file at image_path
    args,               \* map_soil_depths_to_image: its arguments
    img,                \* map_soil_depths_to_image: size of the rotated image
    rotations,          \* how many times the source image was rotated by 90
    depth_levels,       \* map_soil_depths_to_image: the levels, in depth units
    curves,             \* all_projection_curves: per level, per sample, y_px
    overlay,            \* the overlay image: what was drawn on it
    cast,               \* how the build converts a non-finite float to int
    band,               \* loop index i of the extraction loop (0-based)
    extracted_sections, \* (path, start_depth, end_depth) per band, in order
    result              \* what the entry function returned

vars == <<pc, error, log, dirs, files, handles, matched, caller,
          stitch_direction, image_files, images, offsets, combined,
          src, args, img, rotations, depth_levels, curves, overlay, cast,
          band, extracted_sections, result>>

combineVars == <<stitch_direction, image_files, images, offsets, combined>>
mapVars == <<src, args, img, rotations, depth_levels, curves, overlay, cast,
             band, extracted_sections>>

(***************************************************************************)
(* Generic helpers.                                                        *)
(***************************************************************************)
Range(s) == {s[k] : k \in DOMAIN s}

RECURSIVE SumSeq(_)
SumSeq(s) == IF s = <<>> THEN 0 ELSE s[1] + SumSeq(Tail(s))

MaxOf(S) == CHOOSE m \in S : \A x \in S : x <= m
MinOf(S) == CHOOSE m \in S : \A x \in S : m <= x

NoSize == [w |-> 0, h |-> 0]

(***************************************************************************)
(* combine_tube_images: pure parts.                                        *)
(***************************************************************************)
\* What the directory can hold: each matching file has a position index in
\* its name (0 when extract_position finds no L<digits>) and a pixel size.
FileAttr == [pos : 0..MaxPos, w : 1..MaxDim, h : 1..MaxDim]

\* glob.glob: the matching files in an arbitrary order; a file is identified
\* by its place in that order.
Listings ==
    UNION {{[k \in 1..n |-> [id |-> k, pos |-> f[k].pos, w |-> f[k].w, h |-> f[k].h]]
             : f \in [1..n -> FileAttr]} : n \in 0..MaxFiles}

\* list.sort(key=extract_position): a stable sort on the position index.
RECURSIVE InsertByPos(_, _)
InsertByPos(s, f) ==
    IF s = <<>> THEN <<f>>
    ELSE IF s[Len(s)].pos <= f.pos THEN Append(s, f)
    ELSE Append(InsertByPos(SubSeq(s, 1, Len(s) - 1), f), s[Len(s)])

\* The sort left out: the files stay in the order glob gave them.
Unsorted(s) == s

RECURSIVE SortByPos(_)
SortByPos(s) ==
    IF s = <<>> THEN <<>>
    ELSE InsertByPos(SortByPos(SubSeq(s, 1, Len(s) - 1)), s[Len(s)])

\* The size across the stitch axis and the length along it.
Cross(im, dir) == IF dir = "vertical" THEN im.w ELSE im.h
Along(im, dir) == IF dir = "vertical" THEN im.h ELSE im.w

CrossSizes(ims, dir) == [k \in DOMAIN ims |-> Cross(ims[k], dir)]

Count(s, v) == Cardinality({k \in DOMAIN s : s[k] = v})

\* max(set(widths), key=widths.count): a value of the highest count; among
\* several of them the one the set's iteration meets first, which the values
\* do not determine.
MostCommon(sizes) ==
    {v \in Range(sizes) : \A u \in Range(sizes) : Count(sizes, u) <= Count(sizes, v)}

\* aspect = along / cross; new_along = int(aspect * common)
NewAlong(im, common, dir) == (Along(im, dir) * common) \div Cross(im, dir)

\* img.resize((common, new_along)) in the vertical branch,
\* img.resize((new_along, common)) in the horizontal one.
ResizeTo(im, common, dir) ==
    IF dir = "vertical"
    THEN [id |-> im.id, pos |-> im.pos, w |-> common, h |-> NewAlong(im, common, dir)]
    ELSE [id |-> im.id, pos |-> im.pos, w |-> NewAlong(im, common, dir), h |-> common]

NeedsResize(im, common, dir) == Cross(im, dir) # common

\* Image.resize refuses a size with a zero side (ValueError).
ResizeFails(im, common, dir) ==
    NeedsResize(im, common, dir) /\ NewAlong(im, common, dir) < 1

\* The offset of image k: the running sum of the lengths pasted before it.
PasteOffsets(ims, dir) ==
    [k \in DOMAIN ims |-> SumSeq([j \in 1..(k - 1) |-> Along(ims[j], dir)])]

\* total_width, total_height
CanvasSize(ims, dir) ==
    IF dir = "vertical"
    THEN [w |-> MaxOf({ims[k].w : k \in DOMAIN ims}),
          h |-> SumSeq([k \in DOMAIN ims |-> ims[k].h])]
    ELSE [w |-> SumSeq([k \in DOMAIN ims |-> ims[k].w]),
          h |-> MaxOf({ims[k].h : k \in DOMAIN ims})]

(***************************************************************************)
(* Floating point.  A float is finite (a fixed-point integer), a NaN or an *)
(* infinity; IEEE 754 arithmetic as numpy applies it.                      *)
(***************************************************************************)
Fin(v) == <<"fin", v>>
NaN == <<"nan", 0>>
PInf == <<"inf", 1>>
NInf == <<"inf", -1>>
IsFin(f) == f[1] = "fin"
IsNaN(f) == f[1] = "nan"
Val(f) == f[2]

Sign(n) == IF n > 0 THEN 1 ELSE IF n < 0 THEN -1 ELSE 0

\* Floor division by a divisor of either sign.
Div(a, b) == IF b > 0 THEN a \div b ELSE (-a) \div (-b)

\* n / d for a finite n (its sign sn when n is a rounded-off zero): x/0 is an
\* infinity of x's sign, 0/0 is NaN.
FDiv(n, sn, d) ==
    IF d # 0 THEN Fin(Div(n, d))
    ELSE IF sn > 0 THEN PInf ELSE IF sn < 0 THEN NInf ELSE NaN

FAdd(a, b) ==
    IF IsNaN(a) \/ IsNaN(b) THEN NaN
    ELSE IF IsFin(a) /\ IsFin(b) THEN Fin(Val(a) + Val(b))
    ELSE IF IsFin(a) THEN b
    ELSE IF IsFin(b) THEN a
    ELSE IF a = b THEN a ELSE NaN

\* c - f * m for finite c and finite m > 0, m in thousandths.
FSubScaled(c, f, m) ==
    IF IsNaN(f) THEN NaN
    ELSE IF IsFin(f) THEN Fin(c - ((Val(f) * m) \div 1000))
    ELSE IF f = PInf THEN NInf ELSE PInf

\* a < b and a >= b on floats: every comparison with a NaN is false.
FLess(a, b) ==
    /\ ~IsNaN(a) /\ ~IsNaN(b)
    /\ IF IsFin(a) /\ IsFin(b) THEN Val(a) < Val(b)
       ELSE IF IsFin(a) THEN b = PInf
       ELSE IF IsFin(b) THEN a = NInf
       ELSE a = NInf /\ b = PInf
FLeq(a, b) == ~IsNaN(a) /\ ~IsNaN(b) /\ ~FLess(b, a)

(***************************************************************************)
(* map_soil_depths_to_image: pure parts.                                   *)
(***************************************************************************)
\* The tilt angles tried, in degrees.
Angles == {-5, 0, 30, 45, 90, 95}

\* np.sin(np.radians(a)) in thousandths.
Sin1000(a) ==
    CASE a = -5 -> -87
      [] a = 0 -> 0
      [] a = 30 -> 500
      [] a = 45 -> 707
      [] a = 90 -> 1000
      [] a = 95 -> 996

\* np.tan(np.radians(a)) in thousandths; tan of 90 degrees is 1.6e16 in
\* floating point, beyond the integers here: the largest integer stands for
\* it (every quotient by it rounds to 0 either way).
Tan1000(a) ==
    CASE a = -5 -> -87
      [] a = 0 -> 0
      [] a = 30 -> 577
      [] a = 45 -> 1000
      [] a = 90 -> 2147483647
      [] a = 95 -> -11430

\* np.arange(0, stop, step): ceil(stop / step) values 0, step, 2 step, ...
Arange(stop, step) ==
    [k \in 1..((stop + step - 1) \div step) |-> (k - 1) * step]

\* depth_levels: np.arange(0, max_depth_cm + 1, depth_interval_cm), with
\* max_depth_cm appended when the last level is below it.  In depth units,
\* 1 cm is DepthUnitsPerCm.
DepthLevels(max_depth, interval) ==
    LET levels == Arange(max_depth + DepthUnitsPerCm, interval)
    IN  IF levels[Len(levels)] < max_depth
        THEN Append(levels, max_depth)
        ELSE levels

\* Sample k (0-based) of np.linspace(0, img_width, NumSamples) as a fraction
\* of the turn: q quarter-turns of NumSamples - 1 parts, shifted by a
\* quarter so that the cosine is the sine of it.
CosPhase(k) == (4 * k + (NumSamples - 1)) % (4 * (NumSamples - 1))

\* sin of q/(2M) half-turns, 0 <= q <= 2M, in thousandths (Bhaskara's
\* rational approximation, exact at the multiples of a quarter-turn).
HalfSine1000(q, M) == (4000 * q * (2 * M - q)) \div (5 * M * M - q * (2 * M - q))

\* np.cos(theta_positions[k]) in thousandths.
Cos1000(k) ==
    LET M == NumSamples - 1
        q == CosPhase(k)
    IN  IF q <= 2 * M THEN HalfSine1000(q, M) ELSE -HalfSine1000(q - 2 * M, M)

\* The sign of np.cos(theta_positions[k]): the floating-point cosine is
\* never 0 (cos(pi/2) is 6e-17, cos(3pi/2) is -2e-16).
CosSign(k) ==
    LET M == NumSamples - 1
        q == CosPhase(k)
    IN  IF q = 0 THEN -1 ELSE IF q <= 2 * M THEN 1 ELSE -1

\* depths in thousandths of a cm
DepthMilliCm(d) == (d * 1000) \div DepthUnitsPerCm

\* image_height_cm = image_width_cm * (img_height / img_width), thousandths
ImageHeightMilliCm(a, im) == (a.width_cm * 1000 * im.h) \div im.w

\* pixels_per_cm_y = img_height / image_height_cm, in thousandths
PixelsPerCmY1000(a, im) == (im.h * 1000000) \div ImageHeightMilliCm(a, im)

\* depth_offset = depth_cm / np.sin(asscent_angle_rad), thousandths of a cm
DepthOffset(a, d) == FDiv(DepthMilliCm(d) * 1000, Sign(d), Sin1000(a.angle))

\* angle_variation = cylinder_radius_cm * np.cos(theta) / np.tan(angle)
AngleVariation(a, k) ==
    LET radius == (a.diameter * 1000) \div 2
    IN  FDiv(radius * Cos1000(k), Sign(radius) * CosSign(k), Tan1000(a.angle))

\* The flip to image rows left out: y_px = (depth_offset + angle_variation) *
\* pixels_per_cm_y.
YPxNotFlipped(a, im, d, k) ==
    FSubScaled(0, FAdd(DepthOffset(a, d), AngleVariation(a, k)),
               -PixelsPerCmY1000(a, im))

\* y_px = img_height - (depth_offset + angle_variation) * pixels_per_cm_y,
\* in thousandths of a pixel.
YPx(a, im, d, k) ==
    FSubScaled(im.h * 1000, FAdd(DepthOffset(a, d), AngleVariation(a, k)),
               PixelsPerCmY1000(a, im))

\* One projection curve: y_px at each of the NumSamples samples (sample k,
\* 0-based, is element k + 1; its x_px is k * img_width / (NumSamples - 1)).
ProjectionCurve(a, im, d) == [s \in 1..NumSamples |-> YPx(a, im, d, s - 1)]

\* all_projection_curves
AllProjectionCurves(a, im, levels) ==
    [l \in DOMAIN levels |-> ProjectionCurve(a, im, levels[l])]

HasNonFinite(cs) == \E l \in DOMAIN cs : \E s \in DOMAIN cs[l] : ~IsFin(cs[l][s])

\* label_y: 110 pixels above the curve's first point, or 20 below it when
\* that is above the canvas.
LabelY(y0) ==
    LET above == FAdd(y0, Fin(-110000))
    IN  IF FLess(above, Fin(0)) THEN FAdd(y0, Fin(20000)) ELSE above

\* (int) of a pixel ordinate, as the rasteriser takes it: a finite one is
\* truncated towards 0; for one that is not finite the C conversion is
\* undefined, and gives the lowest int on x86, and 0, the highest or the
\* lowest int on arm.  A row beyond the canvas is kept as the row just above
\* (-1) or just below (height) it.
Row(f, im, c) ==
    IF IsFin(f)
    THEN LET r == IF Val(f) >= 0 THEN Val(f) \div 1000 ELSE -((-Val(f)) \div 1000)
         IN  IF r < 0 THEN -1 ELSE IF r > im.h THEN im.h ELSE r
    ELSE IF c = "arm"
         THEN IF IsNaN(f) THEN 0 ELSE IF f = PInf THEN im.h ELSE -1
         ELSE -1

\* The canvas columns looked at: one per sample whose x_px is on the canvas
\* (the last sample, x_px = img_width, is beyond it).
Columns == 1..(NumSamples - 1)

\* mask_draw.polygon(upper_curve + lower_curve[::-1], fill=255): in every
\* column the rows from one curve to the other, both included, clipped to
\* the canvas.  lo and hi are 1-based indices of the two curves.
PolygonMask(cs, im, c, up, low) ==
    {<<s, r>> \in Columns \X (0..(im.h - 1)) :
        LET a == Row(cs[up][s], im, c)
            b == Row(cs[low][s], im, c)
        IN  (a <= r /\ r <= b) \/ (b <= r /\ r <= a)}

\* The upper curve taken from the first level instead of level i.
BandMaskFromSurface(cs, im, c, i) == PolygonMask(cs, im, c, 1, i + 2)

\* The mask of band i (0-based): its curves are those of levels i and i + 1.
BandMask(cs, im, c, i) == PolygonMask(cs, im, c, i + 1, i + 2)

\* transpose(Image.FLIP_TOP_BOTTOM)
FlipTopBottom(pixels, im) == {<<p[1], im.h - 1 - p[2]>> : p \in pixels}

\* A file written to the output directory.
FileRec(name, kind, size, flips, start, end, pixels, panels) ==
    [name |-> name, kind |-> kind, w |-> size.w, h |-> size.h, flips |-> flips,
     start |-> start, end |-> end, pixels |-> pixels, panels |-> panels]

\* Image.save(path): the file at the path is replaced.
Save(fs, f) ==
    {g \in fs : ~(g.name = f.name /\ g.start = f.start /\ g.end = f.end)} \cup {f}

NoArgs == [angle |-> 0, diameter |-> 0, interval |-> 0, max_depth |-> 0, width_cm |-> 0]
NoResult == [path |-> "none", sections |-> <<>>]

\* The arguments tried.
ArgSets ==
    [angle : Angles, diameter : {0, 1}, interval : 1..MaxIntervalU,
     max_depth : 1..MaxDepthU, width_cm : {0, 1}]

Init ==
    /\ pc = "main"
    /\ error = "none"
    /\ log = {}
    /\ dirs = {}
    /\ files = {}
    /\ handles = {}
    /\ matched = "unknown"
    /\ caller = "none"
    /\ stitch_direction = "none"
    /\ image_files = <<>>
    /\ images = <<>>
    /\ offsets = <<>>
    /\ combined = NoSize
    /\ src = NoSize
    /\ args = NoArgs
    /\ img = NoSize
    /\ rotations = 0
    /\ depth_levels = <<>>
    /\ curves = <<>>
    /\ overlay = [lines |-> {}, labels |-> {}]
    /\ cast = "none"
    /\ band = 0
    /\ extracted_sections = <<>>
    /\ result = NoResult

\* An exception leaves the function: the run ends with it.
Raise(e) ==
    /\ pc' = "done"
    /\ error' = e

(***************************************************************************)
(* Entry points.                                                           *)
(***************************************************************************)
\* process_tube_images: create the output directory, then stitch
\* horizontally.
process_tube_images ==
    /\ pc = "main"
    /\ dirs' = dirs \cup {"output_dir"}
    /\ caller' = "process_tube_images"
    /\ stitch_direction' = "horizontal"
    /\ pc' = "combine_glob"
    /\ UNCHANGED <<error, log, files, handles, matched, image_files, images,
                   offsets, combined, mapVars, result>>

\* combine_tube_images called on its own, with the default direction.
combine_tube_images ==
    /\ pc = "main"
    /\ caller' = "none"
    /\ stitch_direction' = "vertical"
    /\ pc' = "combine_glob"
    /\ UNCHANGED <<error, log, dirs, files, handles, matched, image_files,
                   images, offsets, combined, mapVars, result>>

\* __main__ with --process_single: glob, and take the first match.
process_single ==
    /\ pc = "main"
    /\ \E listing \in Listings :
         IF listing = <<>>
         THEN /\ matched' = "none"
              /\ log' = log \cup {"No images found"}
              /\ Raise("SystemExit(1): no images found")
              /\ UNCHANGED <<src, caller>>
         ELSE /\ matched' = "some"
              /\ src' = [w |-> listing[1].w, h |-> listing[1].h]
              /\ caller' = "process_single"
              /\ pc' = "map_load"
              /\ UNCHANGED <<error, log>>
    /\ UNCHANGED <<dirs, files, handles, combineVars, args, img, rotations,
                   depth_levels, curves, overlay, cast, band,
                   extracted_sections, result>>

(***************************************************************************)
(* combine_tube_images.                                                    *)
(***************************************************************************)
\* The empty check left out: an empty canvas is saved.
combine_glob_unchecked ==
    /\ pc = "combine_glob"
    /\ \E listing \in Listings :
         IF listing = <<>>
         THEN /\ matched' = "none"
              /\ files' = Save(files, FileRec("combined_tube.png", "combined", NoSize,
                                              0, 0, 0, {}, <<>>))
              /\ pc' = "done"
              /\ UNCHANGED <<image_files, log, error>>
         ELSE /\ matched' = "some"
              /\ image_files' = SortByPos(listing)
              /\ log' = log \cup {"Found images to combine"}
              /\ pc' = "combine_open"
              /\ UNCHANGED <<error, files>>
    /\ UNCHANGED <<dirs, handles, caller, stitch_direction, images,
                   offsets, combined, mapVars, result>>

\* glob, the empty check, the sort.
combine_glob ==
    /\ pc = "combine_glob"
    /\ \E listing \in Listings :
         IF listing = <<>>
         THEN /\ matched' = "none"
              /\ Raise("ValueError: no images found")
              /\ UNCHANGED <<image_files, log>>
         ELSE /\ matched' = "some"
              /\ image_files' = SortByPos(listing)
              /\ log' = log \cup {"Found images to combine"}
              /\ pc' = "combine_open"
              /\ UNCHANGED error
    /\ UNCHANGED <<dirs, files, handles, caller, stitch_direction, images,
                   offsets, combined, mapVars, result>>

\* images = [Image.open(f) for f in image_files]: each open leaves the file
\* open (the pixels are read later); an open that fails (bad = k > 0: file k
\* is no image) ends the run with the files before it still open.
combine_open ==
    /\ pc = "combine_open"
    /\ \E bad \in 0..Len(image_files) :
         IF bad = 0
         THEN /\ images' = image_files
              /\ handles' = handles \cup {image_files[k].id : k \in DOMAIN image_files}
              /\ pc' = "combine_resize"
              /\ UNCHANGED error
         ELSE /\ handles' = handles \cup {image_files[k].id : k \in 1..(bad - 1)}
              /\ Raise("UnidentifiedImageError")
              /\ UNCHANGED images
    /\ UNCHANGED <<log, dirs, files, matched, caller, stitch_direction,
                   image_files, offsets, combined, mapVars, result>>

\* Index of the first image whose resize is refused, 0 if none.
FirstResizeFailure(ims, common, dir) ==
    LET bad == {k \in DOMAIN ims : ResizeFails(ims[k], common, dir)}
    IN  IF bad = {} THEN 0 ELSE MinOf(bad)

\* The resize block.  Resizing reads the pixels of the image, which closes
\* its file; the image that replaces it has no file.
combine_resize ==
    /\ pc = "combine_resize"
    /\ IF Cardinality(Range(CrossSizes(images, stitch_direction))) > 1
       THEN \E common \in MostCommon(CrossSizes(images, stitch_direction)) :
              LET dir == stitch_direction
                  bad == FirstResizeFailure(images, common, dir)
                  upto == IF bad = 0 THEN Len(images) ELSE bad
                  done == {k \in 1..upto : NeedsResize(images[k], common, dir)}
              IN  /\ images' = [k \in DOMAIN images |->
                                  IF k \in done /\ k # bad
                                  THEN ResizeTo(images[k], common, dir)
                                  ELSE images[k]]
                  /\ handles' = handles \ {images[k].id : k \in done}
                  /\ log' = log \cup {"Warning: different sizes"}
                              \cup (IF done \ {bad} # {} THEN {"Resized image"} ELSE {})
                  /\ IF bad = 0
                     THEN pc' = "combine_paste" /\ UNCHANGED error
                     ELSE Raise("ValueError: height and width must be > 0")
       ELSE /\ pc' = "combine_paste"
            /\ UNCHANGED <<images, handles, log, error>>
    /\ UNCHANGED <<dirs, files, matched, caller, stitch_direction, image_files,
                   offsets, combined, mapVars, result>>

\* The canvas and the paste loop.  Pasting reads the pixels of each image
\* still backed by a file, which closes that file.
combine_paste ==
    /\ pc = "combine_paste"
    /\ combined' = CanvasSize(images, stitch_direction)
    /\ offsets' = PasteOffsets(images, stitch_direction)
    /\ handles' = handles \ {images[k].id : k \in DOMAIN images}
    /\ pc' = "combine_save"
    /\ UNCHANGED <<error, log, dirs, files, matched, caller, stitch_direction,
                   image_files, images, mapVars, result>>

\* combined.save(output_path), and the return to the caller, which ends the
\* function's local variables.
combine_save ==
    /\ pc = "combine_save"
    /\ files' = Save(files, FileRec("combined_tube.png", "combined", combined,
                                    0, 0, 0, {}, <<>>))
    /\ log' = log \cup {"Combined image saved"}
    /\ IF caller = "process_tube_images"
       THEN /\ src' = combined
            /\ pc' = "map_load"
            /\ UNCHANGED result
       ELSE /\ result' = [path |-> "combined_tube.png", sections |-> <<>>]
            /\ pc' = "done"
            /\ UNCHANGED src
    /\ stitch_direction' = "none"
    /\ image_files' = <<>>
    /\ images' = <<>>
    /\ offsets' = <<>>
    /\ combined' = NoSize
    /\ UNCHANGED <<error, dirs, handles, matched, caller, args, img,
                   rotations, depth_levels, curves, overlay, cast, band,
                   extracted_sections>>

(***************************************************************************)
(* map_soil_depths_to_image.                                               *)
(***************************************************************************)
\* makedirs, Image.open, rotate, and the conversion factors.  The file is
\* open from Image.open until rotate has read its pixels.  A file that is no
\* image ends the run in Image.open; image_width_cm = 0 ends it in the
\* division img_width / image_width_cm.
map_load ==
    /\ pc = "map_load"
    /\ dirs' = dirs \cup {"output_dir"}
    /\ \E a \in ArgSets :
       \E readable \in (IF caller = "process_single" THEN BOOLEAN ELSE {TRUE}) :
         /\ args' = a
         /\ IF ~readable
            THEN /\ Raise("UnidentifiedImageError")
                 /\ UNCHANGED <<img, rotations, log>>
            ELSE /\ img' = [w |-> src.h, h |-> src.w]
                 /\ rotations' = rotations + 1
                 /\ IF a.width_cm = 0
                    THEN /\ Raise("ZeroDivisionError")
                         /\ log' = log \cup {"Calculated image height"}
                    ELSE /\ pc' = "map_levels"
                         /\ log' = log \cup {"Calculated image height", "Cylinder angle"}
                         /\ UNCHANGED error
    /\ UNCHANGED <<files, handles, matched, caller, combineVars, src,
                   depth_levels, curves, overlay, cast, band,
                   extracted_sections, result>>

\* extracted_sections = [], the overlay copy, depth_levels.
map_levels ==
    /\ pc = "map_levels"
    /\ extracted_sections' = <<>>
    /\ overlay' = [lines |-> {}, labels |-> {}]
    /\ depth_levels' = DepthLevels(args.max_depth, args.interval)
    /\ pc' = "map_curves"
    /\ UNCHANGED <<error, log, dirs, files, handles, matched, caller,
                   combineVars, src, args, img, rotations, curves, cast, band,
                   result>>

\* The loop over depth_levels that fills all_projection_curves.  Each pass
\* ends by loading arial.ttf, which raises OSError where that font is not
\* installed: the first pass then ends the run.
map_curves ==
    /\ pc = "map_curves"
    /\ \E font \in BOOLEAN :
         IF font
         THEN /\ curves' = AllProjectionCurves(args, img, depth_levels)
              /\ pc' = "map_overlay"
              /\ UNCHANGED error
         ELSE /\ curves' = AllProjectionCurves(args, img, SubSeq(depth_levels, 1, 1))
              /\ Raise("OSError: cannot open resource")
    /\ UNCHANGED <<log, dirs, files, handles, matched, caller, combineVars,
                   src, args, img, rotations, depth_levels, overlay, cast,
                   band, extracted_sections, result>>

\* The loop that draws every curve and its label on the overlay.  With
\* coordinates that are not finite the drawing library's behaviour is not
\* defined by the program: draw.text raises (int() of a NaN or an infinity),
\* or the coordinates are converted as the build converts them.
map_overlay ==
    /\ pc = "map_overlay"
    /\ \E c \in (IF HasNonFinite(curves) THEN {"raise", "x86", "arm"} ELSE {"finite"}) :
         /\ cast' = c
         /\ IF c = "raise"
            THEN /\ overlay' = [lines |-> {1}, labels |-> {}]
                 /\ Raise("ValueError: cannot convert float to integer")
                 /\ UNCHANGED band
            ELSE /\ overlay' = [lines |-> DOMAIN curves,
                                labels |-> {<<l, LabelY(curves[l][1])>> : l \in DOMAIN curves}]
                 /\ band' = 0
                 /\ pc' = "map_bands"
                 /\ UNCHANGED error
    /\ UNCHANGED <<log, dirs, files, handles, matched, caller, combineVars,
                   src, args, img, rotations, depth_levels, curves,
                   extracted_sections, result>>

\* One pass of the extraction loop: the mask of band i, the paste through
\* it, the vertical flip, the save, and the entry in extracted_sections.
map_extract_band ==
    /\ pc = "map_bands"
    /\ band < Len(depth_levels) - 1
    /\ LET start_depth == depth_levels[band + 1]
           end_depth == depth_levels[band + 2]
           mask == BandMask(curves, img, cast, band)
           extracted == FlipTopBottom(mask, img)
       IN  /\ files' = Save(files, FileRec("depth_{start}cm_to_{end}cm.png", "band",
                                           img, 1, start_depth, end_depth,
                                           extracted, <<>>))
           /\ extracted_sections' = Append(extracted_sections, <<start_depth, end_depth>>)
    /\ band' = band + 1
    /\ UNCHANGED <<pc, error, log, dirs, handles, matched, caller, combineVars,
                   src, args, img, rotations, depth_levels, curves, overlay,
                   cast, result>>

\* The flip of the overlay left out.
map_save_overlay_unflipped ==
    /\ pc = "map_bands"
    /\ band = Len(depth_levels) - 1
    /\ files' = Save(files, FileRec("depth_overlay.png", "overlay", img, 0, 0, 0,
                                    {}, <<>>))
    /\ pc' = "visualization"
    /\ UNCHANGED <<error, log, dirs, handles, matched, caller, combineVars,
                   mapVars, result>>

\* After the loop: the overlay is flipped and saved.
map_save_overlay ==
    /\ pc = "map_bands"
    /\ band = Len(depth_levels) - 1
    /\ files' = Save(files, FileRec("depth_overlay.png", "overlay", img, 1, 0, 0,
                                    {}, <<>>))
    /\ pc' = "visualization"
    /\ UNCHANGED <<error, log, dirs, handles, matched, caller, combineVars,
                   mapVars, result>>

\* sorted(section_infos, key=lambda x: x[1]): a stable sort on start_depth.
RECURSIVE InsertByStart(_, _)
InsertByStart(s, e) ==
    IF s = <<>> THEN <<e>>
    ELSE IF s[Len(s)][1] <= e[1] THEN Append(s, e)
    ELSE Append(InsertByStart(SubSeq(s, 1, Len(s) - 1), e), s[Len(s)])

RECURSIVE SortByStart(_)
SortByStart(s) ==
    IF s = <<>> THEN <<>>
    ELSE InsertByStart(SortByStart(SubSeq(s, 1, Len(s) - 1)), s[Len(s)])

\* create_combined_visualization: one panel per section, shallow to deep.
\* Each band file is opened and its pixels are read at once (getchannel),
\* which closes it; a band without a single opaque pixel is shown uncropped.
create_combined_visualization ==
    /\ pc = "visualization"
    /\ files' = Save(files, FileRec("all_depths.png", "visualization", NoSize, 0, 0, 0,
                                    {}, SortByStart(extracted_sections)))
    /\ pc' = "map_return"
    /\ UNCHANGED <<error, log, dirs, handles, matched, caller, combineVars,
                   mapVars, result>>

\* return overlay_path, [path for path, _, _ in extracted_sections], through
\* process_tube_images when it is the caller, and the last prints of __main__.
map_return ==
    /\ pc = "map_return"
    /\ result' = [path |-> "depth_overlay.png", sections |-> extracted_sections]
    /\ log' = log \cup (IF caller = "process_single" THEN {"Processed single image"} ELSE {})
                  \cup {"Processing complete"}
    /\ pc' = "done"
    /\ UNCHANGED <<error, dirs, files, handles, matched, caller, combineVars,
                   mapVars>>

Next ==
    \/ process_tube_images
    \/ combine_tube_images
    \/ process_single
    \/ combine_glob
    \/ combine_open
    \/ combine_resize
    \/ combine_paste
    \/ combine_save
    \/ map_load
    \/ map_levels
    \/ map_curves
    \/ map_overlay
    \/ map_extract_band
    \/ map_save_overlay
    \/ create_combined_visualization
    \/ map_return

Spec == Init /\ [][Next]_vars

(***************************************************************************)
(* Claims.                                                                 *)
(***************************************************************************)
\* The number of depth levels, and the stages at which all curves exist and
\* at which masks are built.
NLevels == Len(depth_levels)
CurvesComplete == curves # <<>> /\ Len(curves) = NLevels
MasksBuilt == CurvesComplete /\ cast \in {"finite", "x86", "arm"}
Mask(i) == BandMask(curves, img, cast, i)
BandFiles == {f \in files : f.kind = "band"}
Completed == pc = "done" /\ error = "none"
MapCompleted == Completed /\ result.path = "depth_overlay.png"

\* The calibration-time failures of the code: the division by a zero
\* image_width_cm.
ConfigurationErrors == {"ZeroDivisionError"}
ImageLoaded == img # NoSize
InvalidCalibration ==
    \/ args.angle <= 0
    \/ args.angle >= 90
    \/ args.diameter <= 0
    \/ args.width_cm <= 0
ValidCalibration == args # NoArgs /\ ~InvalidCalibration

\* C1: the depth levels start at 0, increase strictly in steps of the
\* interval (the last step may be shorter), and the last level is the
\* maximum depth exactly: no level lies beyond it.
C1_LevelsEndAtMaxDepth ==
    (depth_levels # <<>> /\ ValidCalibration) =>
        /\ depth_levels[1] = 0
        /\ \A l \in 1..(NLevels - 1) :
             /\ depth_levels[l] < depth_levels[l + 1]
             /\ depth_levels[l + 1] - depth_levels[l] <= args.interval
             /\ l < NLevels - 1 => depth_levels[l + 1] - depth_levels[l] = args.interval
        /\ depth_levels[NLevels] = args.max_depth
        /\ \A l \in 1..NLevels : depth_levels[l] <= args.max_depth

\* C2: with a tilt angle outside (0, 90) or a dimension <= 0 the run ends in
\* a configuration error, no curve has been generated and no band or
\* overlay file has been written.
C2_InvalidCalibrationRejected ==
    (ImageLoaded /\ InvalidCalibration) =>
        /\ curves = <<>>
        /\ \A f \in files : f.kind \notin {"band", "overlay"}
        /\ pc = "done" => error \in ConfigurationErrors

\* The rows of curve l (1-based) in column s.
CurveRow(l, s) == Row(curves[l][s], img, cast)
Between(r, a, b) == (a <= r /\ r <= b) \/ (b <= r /\ r <= a)

\* C3: a pixel set in the masks of two bands lies on the boundary curves
\* between them (for adjacent bands: on the curve they share), and once all
\* bands are built the union of the masks is the canvas region from the
\* shallowest to the deepest curve.
C3_MaskPartition ==
    (MasksBuilt /\ pc \in {"map_bands", "visualization", "map_return", "done"}) =>
        /\ \A i \in 0..(band - 1) : \A j \in (i + 1)..(band - 1) :
             \A p \in Mask(i) \cap Mask(j) :
                /\ CurveRow(i + 2, p[1]) = p[2]
                /\ CurveRow(j + 1, p[1]) = p[2]
        /\ band = NLevels - 1 =>
             UNION {Mask(i) : i \in 0..(band - 1)} =
               {p \in Columns \X (0..(img.h - 1)) :
                   Between(p[2], CurveRow(1, p[1]), CurveRow(NLevels, p[1]))}

C3_Witness ==
    /\ MasksBuilt
    /\ pc = "done"
    /\ band = NLevels - 1
    /\ band >= 3
    /\ \E i \in 0..(band - 2) :
         /\ Mask(i) \cap Mask(i + 1) # {}
         /\ Mask(i) \ Mask(i + 1) # {}
         /\ Mask(i + 1) \ Mask(i) # {}
    /\ UNION {Mask(i) : i \in 0..(band - 1)} # Columns \X (0..(img.h - 1))

NoInputErrors == {"ValueError: no images found", "SystemExit(1): no images found"}

\* C5: when the pattern matches no file the run has ended with a no-input
\* error, and no output file has been written.
C5_EmptyInput ==
    matched = "none" =>
        /\ pc = "done"
        /\ error \in NoInputErrors
        /\ files = {}
        /\ result = NoResult

C5_Witness ==
    /\ matched = "none"
    /\ pc = "done"
    /\ caller = "process_tube_images"
    /\ dirs = {"output_dir"}
    /\ files = {}

\* C6: a completed run returns one band per pair of consecutive levels, in
\* order of depth, band i tagged with levels i and i + 1, each saved, and
\* the tags together cover 0 to the maximum depth.
C6_BandsCoverMaxDepth ==
    (MapCompleted /\ ValidCalibration) =>
        /\ Len(result.sections) = NLevels - 1
        /\ \A i \in 1..(NLevels - 1) :
             /\ result.sections[i] = <<depth_levels[i], depth_levels[i + 1]>>
             /\ \E f \in BandFiles : f.start = depth_levels[i] /\ f.end = depth_levels[i + 1]
        /\ Cardinality(BandFiles) = NLevels - 1
        /\ result.sections[1][1] = 0
        /\ \A i \in 1..(NLevels - 2) : result.sections[i][2] = result.sections[i + 1][1]
        /\ result.sections[NLevels - 1][2] = args.max_depth

\* Curve l lies outside the canvas at every sample.
OutsideCanvas(l) ==
    \A s \in 1..NumSamples :
        IsFin(curves[l][s]) => (Val(curves[l][s]) < 0 \/ Val(curves[l][s]) > img.h * 1000)

\* Band i (0-based) lies beyond what the image covers: both its curves are
\* outside the canvas, on the same side.
BeyondImage(i) ==
    /\ OutsideCanvas(i + 1)
    /\ OutsideCanvas(i + 2)
    /\ Mask(i) = {}

\* C7: a band whose curves lie outside the canvas does not fail the run: its
\* image is saved and returned, fully transparent, the event is logged, and
\* the other bands, the overlay and the visualization are produced.
C7_EmptyBandLogged ==
    (MasksBuilt /\ pc = "done" /\ ValidCalibration
       /\ \E i \in 0..(NLevels - 2) : BeyondImage(i)) =>
        /\ error = "none"
        /\ \A i \in 0..(NLevels - 2) : BeyondImage(i) =>
             \E f \in BandFiles :
                f.start = depth_levels[i + 1] /\ f.end = depth_levels[i + 2] /\ f.pixels = {}
        /\ Cardinality(BandFiles) = NLevels - 1
        /\ \E f \in files : f.kind = "overlay"
        /\ \E f \in files : f.kind = "visualization"
        /\ "Warning: empty band" \in log

\* C8: no run ends with an image file still open.
C8_HandlesClosedAtExit == pc = "done" => handles = {}

\* C9: the source image has been rotated exactly once before any curve,
\* overlay or mask work; every saved band is its mask flipped exactly once,
\* and the saved overlay is flipped exactly once.
C9_OrientationOnce ==
    /\ (depth_levels # <<>> \/ curves # <<>> \/ overlay.lines # {} \/ BandFiles # {})
         => rotations = 1
    /\ \A f \in files : f.kind \in {"band", "overlay"} => f.flips = 1
    /\ MasksBuilt =>
         \A i \in 0..(band - 1) : \E f \in BandFiles :
            /\ f.start = depth_levels[i + 1]
            /\ f.end = depth_levels[i + 2]
            /\ f.pixels = FlipTopBottom(Mask(i), img)
    /\ MapCompleted =>
         /\ rotations = 1
         /\ \E f \in files : f.kind = "overlay"
         /\ Cardinality(BandFiles) = band

C9_Witness ==
    /\ MapCompleted
    /\ rotations = 1
    /\ \E f \in files : f.kind = "overlay" /\ f.flips = 1
    /\ \E f \in BandFiles : f.pixels # {} /\ FlipTopBottom(f.pixels, img) # f.pixels

====
